---- MODULE Spec2Model ----
(***************************************************************************)
(* A model of app.py: a Flask service over two MongoDB collections         *)
(* (unisyseportal: payroll, ibmzowe: shipping), a log-tail route and a     *)
(* health route.  Every handler is one atomic action; the outcome of each  *)
(* database or file call it makes is an input of the action.               *)
(***************************************************************************)
EXTENDS Integers, Sequences, FiniteSets, TLC

VARIABLES
    handles,    \* TRUE iff client / unisyseportal_col / ibmzowe_col were bound at import
    payroll,    \* the documents of unisyseportal_col, in natural order
    shipping,   \* the documents of ibmzowe_col, in natural order
    req,        \* the request handled last, with the outcome of each call it made
    resp,       \* the response to it: [code, body]
    calls,      \* the database calls that request issued, in order
    logged,     \* the log records that request emitted, in order
    prev,       \* the response to the request before it, when req repeats that request
    tick,       \* the parity of the number of requests served
    logExists,  \* os.path.exists(LOG_FILE)
    logFile     \* the lines of LOG_FILE

vars == <<handles, payroll, shipping, req, resp, calls, logged, prev, tick, logExists, logFile>>

-----------------------------------------------------------------------------
(* Values *)

\* data.get(key) of an absent key
NoneVal == "<None>"
\* a slot of a request no route reads, or the outcome of a call never made
NA == "<n/a>"
\* the outcome of a call that raised nothing
OK == "ok"

\* str(e) of the exceptions the driver or the file system may raise
ExcTexts == {"exc text 1", "exc text 2"}
Outcomes == {OK} \cup ExcTexts
\* str(e) of the NameError raised by `client` when MongoClient(...) failed at import
NameErrorText == "name 'client' is not defined"
\* str(e) of the AttributeError raised by None.count_documents
AttrErrorText == "'NoneType' object has no attribute 'count_documents'"

\* a test for None only, which lets the empty string through
TruthyNotNone(x) == x # NoneVal
\* Python truthiness of the identifier and field strings of a request body
Truthy(x) == x \notin {NoneVal, ""}

\* The identifiers, field paths and values of the requests explored.  "n1" is
\* both a value and an identifier no document holds at first, so that an update
\* of the identifier field makes it match later.
PayrollIds == {"E1", "n1"}
ShippingIds == {"S1", "n1"}
PayrollFields == {"crewMemberId", "salary"}
ShippingFields == {"id", "address"}
PayrollValues == {"n1"}
ShippingValues == {"n1"}

-----------------------------------------------------------------------------
(* JSON payloads of a response *)

NoData == [kind |-> "none"]
EmptyObject == [kind |-> "object", keys |-> {}]
JArray(items) == [kind |-> "array", items |-> items]
JCounts(m, n) == [kind |-> "object", keys |-> {"matched", "modified"},
                  matched |-> m, modified |-> n]

\* bool(data) of Python: None, [] and {} are falsy
DataTruthy(data) ==
    CASE data.kind = "none" -> FALSE
      [] data.kind = "array" -> Len(data.items) > 0
      [] data.kind = "object" -> data.keys # {}

safe_response(success, message, data, code) ==
    [code |-> code,
     body |-> [success |-> success, message |-> message,
               data |-> IF DataTruthy(data) THEN data ELSE EmptyObject]]

-----------------------------------------------------------------------------
(* The collections *)

PayrollRecord(id, salary) == [crewMemberId |-> id, salary |-> salary]
PayrollDoc(oid, records) == [_id |-> oid, data |-> [payrollRecords |-> records]]
ShippingDoc(oid, id, address) ==
    [_id |-> oid, shippingPerson |-> [id |-> id, address |-> address]]

\* the projection {"_id": 0}
ProjectKeepId(doc) == doc
Project(doc) == [k \in DOMAIN doc \ {"_id"} |-> doc[k]]

\* list(col.find({}, {"_id": 0}))
find(col) == [i \in 1..Len(col) |-> Project(col[i])]

\* col.count_documents({})
count_documents(col) == Len(col)

\* the least index of the set S of indices, 0 when S is empty
FirstIndex(S) == IF S = {} THEN 0 ELSE CHOOSE i \in S : \A j \in S : i <= j

\* the filter {"data.payrollRecords.crewMemberId": emp_id}
PayrollElements(doc, emp_id) ==
    {i \in 1..Len(doc.data.payrollRecords) :
        doc.data.payrollRecords[i].crewMemberId = emp_id}
PayrollMatches(col, emp_id) ==
    {i \in 1..Len(col) : PayrollElements(col[i], emp_id) # {}}

\* the filter {"shippingPerson.id": shipping_id}
ShippingMatches(col, shipping_id) ==
    {i \in 1..Len(col) : col[i].shippingPerson.id = shipping_id}

\* {"$set": {"data.payrollRecords.$.<field_path>": new_value}}: the positional
\* operator addresses the first array element the filter matched
SetPayroll(doc, emp_id, field_path, new_value) ==
    LET e == FirstIndex(PayrollElements(doc, emp_id))
    IN  [doc EXCEPT !.data.payrollRecords[e][field_path] = new_value]

\* {"$set": {"shippingPerson.<field_path>": new_value}}
SetShipping(doc, field_path, new_value) ==
    [doc EXCEPT !.shippingPerson[field_path] = new_value]

UpdateResult(col, m, n) == [col |-> col, matched |-> m, modified |-> n]

\* a write to every matching document, as update_many would do
update_many_payroll(col, emp_id, field_path, new_value) ==
    LET new == [i \in 1..Len(col) |->
                   IF i \in PayrollMatches(col, emp_id)
                   THEN SetPayroll(col[i], emp_id, field_path, new_value)
                   ELSE col[i]]
    IN  UpdateResult(new, Cardinality(PayrollMatches(col, emp_id)),
                     Cardinality({i \in 1..Len(col) : new[i] # col[i]}))

\* unisyseportal_col.update_one(filter, update): the first matching document
\* only, no upsert; modified_count is 0 when the value is already there
update_one_payroll(col, emp_id, field_path, new_value) ==
    LET d == FirstIndex(PayrollMatches(col, emp_id))
        doc == SetPayroll(col[d], emp_id, field_path, new_value)
    IN  IF d = 0
        THEN UpdateResult(col, 0, 0)
        ELSE UpdateResult([col EXCEPT ![d] = doc], 1, IF doc = col[d] THEN 0 ELSE 1)

\* an update_one reporting every matched document as modified
update_one_shipping_counts_matched(col, shipping_id, field_path, new_value) ==
    LET d == FirstIndex(ShippingMatches(col, shipping_id))
        doc == SetShipping(col[d], field_path, new_value)
    IN  IF d = 0
        THEN UpdateResult(col, 0, 0)
        ELSE UpdateResult([col EXCEPT ![d] = doc], 1, 1)

\* an update with upsert=True, which inserts when nothing matches
update_one_shipping_upsert(col, shipping_id, field_path, new_value) ==
    LET d == FirstIndex(ShippingMatches(col, shipping_id))
        doc == SetShipping(col[d], field_path, new_value)
    IN  IF d = 0
        THEN UpdateResult(Append(col, ShippingDoc("new", shipping_id, new_value)), 0, 0)
        ELSE UpdateResult([col EXCEPT ![d] = doc], 1, IF doc = col[d] THEN 0 ELSE 1)

\* ibmzowe_col.update_one(filter, update)
update_one_shipping(col, shipping_id, field_path, new_value) ==
    LET d == FirstIndex(ShippingMatches(col, shipping_id))
        doc == SetShipping(col[d], field_path, new_value)
    IN  IF d = 0
        THEN UpdateResult(col, 0, 0)
        ELSE UpdateResult([col EXCEPT ![d] = doc], 1, IF doc = col[d] THEN 0 ELSE 1)

-----------------------------------------------------------------------------
(* Requests, log records, database calls *)

Request(route, json, id, field, value, ping, op1, op2) ==
    [route |-> route, json |-> json, id |-> id, field |-> field, value |-> value,
     ping |-> ping, op1 |-> op1, op2 |-> op2]
NoRequest == Request("none", NA, NA, NA, NA, NA, NA, NA)
NoResponse == [code |-> 0, body |-> [kind |-> "none"]]

Info(text) == [level |-> "INFO", text |-> text]
Error(text) == [level |-> "ERROR", text |-> text]

Call(op, on) == [op |-> op, on |-> on]
\* client.admin.command("ping"); an unbound `client` raises before anything is sent
Ping == IF handles THEN <<Call("ping", "admin")>> ELSE <<>>

\* str(e) of the AttributeError raised by request.json.get when the body is JSON null
JsonErrorText == "'NoneType' object has no attribute 'get'"

Handled(response, issued, records, col) ==
    [resp |-> response, calls |-> issued, logged |-> records, col |-> col]

-----------------------------------------------------------------------------
(* The handlers: r is the request, col the handler's collection *)

\* a handler that queries first and probes afterwards
get_payroll_find_first(r, col) ==
    IF r.ping = OK /\ r.op1 = OK
    THEN Handled(safe_response(TRUE, "Payroll records fetched", JArray(find(col)), 200),
                 <<Call("find", "unisyseportal")>> \o Ping,
                 <<Info("Fetched payroll records.")>>, col)
    ELSE Handled(safe_response(FALSE, "Error fetching payroll records", NoData, 500),
                 <<Call("find", "unisyseportal")>> \o Ping,
                 <<Error("Error in /get/unisys/payroll: "
                         \o (IF r.ping # OK THEN r.ping ELSE r.op1))>>, col)

get_payroll(r, col) ==
    IF r.ping # OK
    THEN Handled(safe_response(FALSE, "Error fetching payroll records", NoData, 500),
                 Ping, <<Error("Error in /get/unisys/payroll: " \o r.ping)>>, col)
    ELSE IF r.op1 # OK
    THEN Handled(safe_response(FALSE, "Error fetching payroll records", NoData, 500),
                 Ping \o <<Call("find", "unisyseportal")>>,
                 <<Error("Error in /get/unisys/payroll: " \o r.op1)>>, col)
    ELSE Handled(safe_response(TRUE, "Payroll records fetched", JArray(find(col)), 200),
                 Ping \o <<Call("find", "unisyseportal")>>,
                 <<Info("Fetched payroll records.")>>, col)

get_shipping(r, col) ==
    IF r.ping # OK
    THEN Handled(safe_response(FALSE, "Error fetching shipping records", NoData, 500),
                 Ping, <<Error("Error in /get/shipping: " \o r.ping)>>, col)
    ELSE IF r.op1 # OK
    THEN Handled(safe_response(FALSE, "Error fetching shipping records", NoData, 500),
                 Ping \o <<Call("find", "ibmzowe")>>,
                 <<Error("Error in /get/shipping: " \o r.op1)>>, col)
    ELSE Handled(safe_response(TRUE, "Shipping records fetched", JArray(find(col)), 200),
                 Ping \o <<Call("find", "ibmzowe")>>,
                 <<Info("Fetched shipping records.")>>, col)

\* an update_one that raises is taken to have written nothing
update_payroll(r, col) ==
    LET result == update_one_payroll(col, r.id, r.field, r.value)
    IN  IF r.ping # OK
        THEN Handled(safe_response(FALSE, "Error updating payroll", NoData, 500),
                     Ping, <<Error("Error in /update/unisys/payroll: " \o r.ping)>>, col)
        ELSE IF ~r.json
        THEN Handled(safe_response(FALSE, "Error updating payroll", NoData, 500),
                     Ping, <<Error("Error in /update/unisys/payroll: " \o JsonErrorText)>>, col)
        ELSE IF ~Truthy(r.id) \/ ~Truthy(r.field)
        THEN Handled(safe_response(FALSE, "Missing required fields", NoData, 400),
                     Ping, <<>>, col)
        ELSE IF r.op1 # OK
        THEN Handled(safe_response(FALSE, "Error updating payroll", NoData, 500),
                     Ping \o <<Call("update_one", "unisyseportal")>>,
                     <<Error("Error in /update/unisys/payroll: " \o r.op1)>>, col)
        ELSE Handled(safe_response(TRUE, "Payroll updated",
                                   JCounts(result.matched, result.modified), 200),
                     Ping \o <<Call("update_one", "unisyseportal")>>,
                     <<Info("Payroll update: emp_id=" \o r.id \o ", field=" \o r.field
                            \o ", modified=" \o ToString(result.modified))>>,
                     result.col)

update_shipping(r, col) ==
    LET result == update_one_shipping(col, r.id, r.field, r.value)
    IN  IF r.ping # OK
        THEN Handled(safe_response(FALSE, "Error updating shipping", NoData, 500),
                     Ping, <<Error("Error in /update/IBM/shipping: " \o r.ping)>>, col)
        ELSE IF ~r.json
        THEN Handled(safe_response(FALSE, "Error updating shipping", NoData, 500),
                     Ping, <<Error("Error in /update/IBM/shipping: " \o JsonErrorText)>>, col)
        ELSE IF ~Truthy(r.id) \/ ~Truthy(r.field)
        THEN Handled(safe_response(FALSE, "Missing required fields", NoData, 400),
                     Ping, <<>>, col)
        ELSE IF r.op1 # OK
        THEN Handled(safe_response(FALSE, "Error updating shipping", NoData, 500),
                     Ping \o <<Call("update_one", "ibmzowe")>>,
                     <<Error("Error in /update/IBM/shipping: " \o r.op1)>>, col)
        ELSE Handled(safe_response(TRUE, "Shipping updated",
                                   JCounts(result.matched, result.modified), 200),
                     Ping \o <<Call("update_one", "ibmzowe")>>,
                     <<Info("Shipping update: id=" \o r.id \o ", field=" \o r.field
                            \o ", modified=" \o ToString(result.modified))>>,
                     result.col)

\* line 205: 200 if overall_status == "healthy" else 500
HealthCode(overall) == IF overall = "healthy" THEN 200 ELSE 500

\* an overall status that only the ping decides
OverallStatusPingOnly(r) == IF r.ping # OK THEN "unhealthy" ELSE "healthy"
\* overall_status starts "healthy" and each except branch sets it "unhealthy"
OverallStatus(r) ==
    IF r.ping # OK \/ r.op1 # OK \/ r.op2 # OK THEN "unhealthy" ELSE "healthy"

\* one sub-check's entry: the except branch reports str(e) as the message
HealthEntry(outcome, message) ==
    IF outcome = OK
    THEN [status |-> "healthy", message |-> message]
    ELSE [status |-> "unhealthy", message |-> outcome]

HealthLogged(r) ==
    (IF r.ping # OK THEN <<Error("MongoDB health check failed: " \o r.ping)>> ELSE <<>>)
    \o (IF r.op1 # OK THEN <<Error("Unisys collection check failed: " \o r.op1)>> ELSE <<>>)
    \o (IF r.op2 # OK THEN <<Error("IBM collection check failed: " \o r.op2)>> ELSE <<>>)

\* count_documents on a None handle raises before anything is sent
HealthCalls ==
    Ping \o (IF handles
             THEN <<Call("count_documents", "unisyseportal"), Call("count_documents", "ibmzowe")>>
             ELSE <<>>)

\* a health check with one try block around the three checks: the first failure
\* ends the evaluation
health_check_one_try(r) ==
    LET first == IF r.ping # OK THEN r.ping ELSE IF r.op1 # OK THEN r.op1 ELSE r.op2
        flask == [status |-> "healthy", message |-> "Flask app is running"]
    IN  IF first = OK
        THEN Handled([code |-> 200,
                      body |-> [flask |-> flask,
                                mongodb |-> HealthEntry(OK, "MongoDB connection OK"),
                                unisys_collection |-> HealthEntry(OK, "Unisys collection OK"),
                                ibm_collection |-> HealthEntry(OK, "IBM collection OK"),
                                overall_status |-> "healthy"]],
                     HealthCalls, <<>>, NA)
        ELSE Handled([code |-> 500,
                      body |-> [flask |-> flask,
                                mongodb |-> HealthEntry(first, "MongoDB connection OK"),
                                overall_status |-> "unhealthy"]],
                     HealthCalls, <<Error("MongoDB health check failed: " \o first)>>, NA)

health_check(r) ==
    Handled([code |-> HealthCode(OverallStatus(r)),
             body |-> [flask |-> [status |-> "healthy", message |-> "Flask app is running"],
                       mongodb |-> HealthEntry(r.ping, "MongoDB connection OK"),
                       unisys_collection |->
                           HealthEntry(r.op1, "Unisys collection has "
                               \o ToString(count_documents(payroll)) \o " records"),
                       ibm_collection |->
                           HealthEntry(r.op2, "IBM collection has "
                               \o ToString(count_documents(shipping)) \o " records"),
                       overall_status |-> OverallStatus(r)]],
            HealthCalls, HealthLogged(r), NA)

-----------------------------------------------------------------------------
(* The log file *)

\* the window of line 155
TailLen == 100
\* the longest log file explored
MaxLogLines == 102

Max(a, b) == IF a >= b THEN a ELSE b

\* lines[:k]
FirstLines(lines, k) == SubSeq(lines, 1, IF Len(lines) < k THEN Len(lines) ELSE k)
\* lines[-k:], for k > 0
LastLines(lines, k) == SubSeq(lines, Max(1, Len(lines) - k + 1), Len(lines))

\* the line the logging handler writes next, named by its position in the file
NextLine == Len(logFile) + 1

get_logs(r) ==
    IF ~logExists
    THEN Handled(safe_response(FALSE, "Log file not found", NoData, 404), <<>>, <<>>, NA)
    ELSE IF r.op1 # OK
    THEN Handled(safe_response(FALSE, "Error fetching logs", NoData, 500),
                 <<>>, <<Error("Error in /logs: " \o r.op1)>>, NA)
    ELSE Handled(safe_response(TRUE, "Logs fetched", JArray(LastLines(logFile, TailLen)), 200),
                 <<>>, <<>>, NA)

-----------------------------------------------------------------------------
(* Initial states *)

\* E1 is the second element of the first document and also in the second
\* document; S1 is in the second and the third document
PayrollSeed ==
    <<PayrollDoc("p1", <<PayrollRecord("E2", "n1"), PayrollRecord("E1", "o1")>>),
      PayrollDoc("p2", <<PayrollRecord("E1", "n1")>>)>>
ShippingSeed ==
    <<ShippingDoc("s1", "S2", "o1"), ShippingDoc("s2", "S1", "o1"),
      ShippingDoc("s3", "S1", "n1")>>

\* lines 34-49: the handles are bound, or left unset by a ConnectionFailure;
\* the collections hold whatever was created outside the service
Init ==
    /\ handles \in BOOLEAN
    /\ payroll \in {<<>>, PayrollSeed}
    /\ shipping \in {<<>>, ShippingSeed}
    /\ req = NoRequest
    /\ resp = NoResponse
    /\ calls = <<>>
    /\ logged = <<>>
    /\ prev = NoResponse
    /\ tick = 0
    /\ logExists = TRUE
    /\ logFile = <<>>

-----------------------------------------------------------------------------
(* Actions: one per route *)

\* what `client.admin.command("ping")` may do
PingOutcomes == IF handles THEN Outcomes ELSE {NameErrorText}
\* what a call on a collection handle may do
CountOutcomes == IF handles THEN Outcomes ELSE {AttrErrorText}
\* a call that is reached only when `reached` holds
OpOutcomes(reached) == IF reached THEN Outcomes ELSE {NA}

SameBody(r, q) ==
    /\ r.route = q.route /\ r.json = q.json
    /\ r.id = q.id /\ r.field = q.field /\ r.value = q.value

Serve(r, out, newPayroll, newShipping) ==
    /\ req' = r
    /\ resp' = out.resp
    /\ calls' = out.calls
    /\ logged' = out.logged
    /\ payroll' = newPayroll
    /\ shipping' = newShipping
    /\ prev' = IF r.route \in {"update_payroll", "update_shipping"} /\ SameBody(r, req)
               THEN resp ELSE NoResponse
    /\ tick' = 1 - tick
    /\ UNCHANGED <<handles, logExists, logFile>>

GetPayroll ==
    \E ping \in PingOutcomes : \E op \in OpOutcomes(ping = OK) :
        LET r == Request("get_payroll", NA, NA, NA, NA, ping, op, NA)
        IN  Serve(r, get_payroll(r, payroll), payroll, shipping)

GetShipping ==
    \E ping \in PingOutcomes : \E op \in OpOutcomes(ping = OK) :
        LET r == Request("get_shipping", NA, NA, NA, NA, ping, op, NA)
        IN  Serve(r, get_shipping(r, shipping), payroll, shipping)

\* the bodies of a POST: JSON null, or an object whose keys may be absent or empty
Bodies(ids, fields, values) ==
    {<<FALSE, NA, NA, NA>>}
    \cup {<<TRUE, id, field, value>> :
            id \in {NoneVal, ""} \cup ids, field \in {NoneVal, ""} \cup fields,
            value \in values}

UpdatePayroll ==
    \E ping \in PingOutcomes : \E b \in Bodies(PayrollIds, PayrollFields, PayrollValues) :
    \E op \in OpOutcomes(ping = OK /\ b[1] /\ Truthy(b[2]) /\ Truthy(b[3])) :
        LET r == Request("update_payroll", b[1], b[2], b[3], b[4], ping, op, NA)
            out == update_payroll(r, payroll)
        IN  Serve(r, out, out.col, shipping)

UpdateShipping ==
    \E ping \in PingOutcomes : \E b \in Bodies(ShippingIds, ShippingFields, ShippingValues) :
    \E op \in OpOutcomes(ping = OK /\ b[1] /\ Truthy(b[2]) /\ Truthy(b[3])) :
        LET r == Request("update_shipping", b[1], b[2], b[3], b[4], ping, op, NA)
            out == update_shipping(r, shipping)
        IN  Serve(r, out, payroll, out.col)

Health ==
    \E ping \in PingOutcomes : \E c1 \in CountOutcomes : \E c2 \in CountOutcomes :
        LET r == Request("health", NA, NA, NA, NA, ping, c1, c2)
        IN  Serve(r, health_check(r), payroll, shipping)

Next == GetPayroll \/ GetShipping \/ UpdatePayroll \/ UpdateShipping \/ Health

Spec == Init /\ [][Next]_vars

-----------------------------------------------------------------------------
(* The log file's own specification: the logging handler appends, the file may *)
(* be emptied or removed from outside, and GET /logs reads it                 *)

\* logging.info / logging.error of any handler: one formatted line appended
WriteLog ==
    /\ logExists
    /\ Len(logFile) < MaxLogLines
    /\ logFile' = Append(logFile, NextLine)
    /\ UNCHANGED <<handles, payroll, shipping, req, resp, calls, logged, prev, tick, logExists>>

\* the file emptied in place from outside the service
TruncateLog ==
    /\ logExists
    /\ logFile # <<>>
    /\ logFile' = <<>>
    /\ UNCHANGED <<handles, payroll, shipping, req, resp, calls, logged, prev, tick, logExists>>

\* the file removed from outside the service
RemoveLog ==
    /\ logExists
    /\ logExists' = FALSE
    /\ logFile' = <<>>
    /\ UNCHANGED <<handles, payroll, shipping, req, resp, calls, logged, prev, tick>>

\* GET /logs; a failed read is itself logged (line 159)
GetLogs ==
    \E io \in OpOutcomes(logExists) :
        LET r == Request("get_logs", NA, NA, NA, NA, NA, io, NA)
            out == get_logs(r)
        IN  /\ Len(logFile) + Len(out.logged) <= MaxLogLines
            /\ req' = r
            /\ resp' = out.resp
            /\ calls' = out.calls
            /\ logged' = out.logged
            /\ prev' = NoResponse
            /\ tick' = 1 - tick
            /\ logFile' = IF out.logged = <<>> THEN logFile ELSE Append(logFile, NextLine)
            /\ UNCHANGED <<handles, payroll, shipping, logExists>>

NextLogs == WriteLog \/ TruncateLog \/ RemoveLog \/ GetLogs

SpecLogs == Init /\ [][NextLogs]_vars

-----------------------------------------------------------------------------
(* Vocabulary of the properties *)

UpdateRoutes == {"update_payroll", "update_shipping"}
ReadRoutes == {"get_payroll", "get_shipping"}
DataRoutes == ReadRoutes \cup UpdateRoutes

\* the step serves a request (every step of Spec; in SpecLogs only GetLogs)
IsRequestStep == tick' # tick

\* the identifier or field strings a body lacks (None) or carries empty
Falsy == {NoneVal, ""}
\* an update request whose body is an object with a truthy identifier and field
ValidBody(r) ==
    r.route \in UpdateRoutes /\ r.json = TRUE /\ r.id \notin Falsy /\ r.field \notin Falsy
\* an update request whose body is an object lacking one of them, or with a falsy one
LackingBody(r) ==
    r.route \in UpdateRoutes /\ r.json = TRUE /\ (r.id \in Falsy \/ r.field \in Falsy)
\* a valid update request all of whose database calls succeeded
ValidAndReachable(r) == ValidBody(r) /\ r.ping = OK /\ r.op1 = OK

Envelope(code, success, message, data) ==
    [code |-> code, body |-> [success |-> success, message |-> message, data |-> data]]

SuccessMessage(route) ==
    CASE route = "get_payroll" -> "Payroll records fetched"
      [] route = "get_shipping" -> "Shipping records fetched"
      [] route = "update_payroll" -> "Payroll updated"
      [] route = "update_shipping" -> "Shipping updated"
ErrorMessage(route) ==
    CASE route = "get_payroll" -> "Error fetching payroll records"
      [] route = "get_shipping" -> "Error fetching shipping records"
      [] route = "update_payroll" -> "Error updating payroll"
      [] route = "update_shipping" -> "Error updating shipping"

Updated(route, m, n) == Envelope(200, TRUE, SuccessMessage(route), JCounts(m, n))
MissingFields == Envelope(400, FALSE, "Missing required fields", EmptyObject)
Failed(route) == Envelope(500, FALSE, ErrorMessage(route), EmptyObject)

Writes(issued) == {i \in 1..Len(issued) : issued[i].op = "update_one"}
Queries(issued) == {i \in 1..Len(issued) : issued[i].op \in {"find", "update_one"}}
StoreUnchanged == payroll' = payroll /\ shipping' = shipping

\* the documents of the request's collection that its identifier matches now
Targets(r) ==
    IF r.route = "update_payroll"
    THEN PayrollMatches(payroll, r.id) ELSE ShippingMatches(shipping, r.id)

\* the value now stored at the path the request addresses (Targets(r) # {})
AddressedValue(r) ==
    IF r.route = "update_payroll"
    THEN LET doc == payroll[FirstIndex(PayrollMatches(payroll, r.id))]
             e == FirstIndex(PayrollElements(doc, r.id))
         IN  doc.data.payrollRecords[e][r.field]
    ELSE shipping[FirstIndex(ShippingMatches(shipping, r.id))].shippingPerson[r.field]

\* the request overwrites the identifier it matched by with another value
OverwritesIdentifier(r) ==
    /\ r.field = (IF r.route = "update_payroll" THEN "crewMemberId" ELSE "id")
    /\ r.value # r.id

-----------------------------------------------------------------------------
(* C1 *)

\* C1 as stated: an update request lacking the identifier or the field (or with
\* a falsy one) is answered 400 "Missing required fields" with an empty data
\* object and issues no update_one, whether the database is reachable or not.
C1_Lacking400InEveryDbState ==
    [][(IsRequestStep /\ LackingBody(req'))
        => (resp' = MissingFields /\ Writes(calls') = {} /\ StoreUnchanged)]_vars

\* C1 amended: such a request never issues update_one and leaves the store
\* unchanged in every state of the database; it is answered 400 "Missing
\* required fields" when the liveness ping succeeds and 500 with the route's
\* fixed error message when the ping fails, the probe running before validation.
C1_Lacking400WhenProbeSucceeds ==
    [][(IsRequestStep /\ LackingBody(req'))
        => /\ Writes(calls') = {}
           /\ StoreUnchanged
           /\ req'.ping = OK => resp' = MissingFields
           /\ req'.ping # OK => resp' = Failed(req'.route)]_vars

C1_Witness ==
    /\ LackingBody(req) /\ req.id = "" /\ req.ping = OK
    /\ resp.code = 400
    /\ payroll # <<>>

-----------------------------------------------------------------------------
(* C2 *)

\* C2 as stated: a valid update whose identifier is present reports matched=1,
\* modified=1 when first issued, and matched=1, modified=0 when issued again
\* right after, both with 200, the second call leaving the store as it was.
C2_FirstModifiesSecondDoesNot ==
    [][(IsRequestStep /\ ValidAndReachable(req'))
        => /\ (~SameBody(req', req) /\ Targets(req') # {})
                => resp' = Updated(req'.route, 1, 1)
           /\ (SameBody(req', req) /\ prev = NoResponse /\ resp = Updated(req.route, 1, 1))
                => (resp' = Updated(req'.route, 1, 0) /\ StoreUnchanged)]_vars

\* C2 amended: a valid update whose identifier is present, served with the
\* database reachable, is answered 200 with matched=1 and with modified=1
\* exactly when the stored value at the addressed path differs from the new
\* value (modified=0 when it is already there); issued again right after a
\* successful first call that matched, and unless it overwrites the identifier
\* it matches by, it is answered 200 with matched=1, modified=0 and leaves the
\* store as the first call left it.
C2_Idempotence ==
    [][(IsRequestStep /\ ValidAndReachable(req'))
        => /\ Targets(req') # {}
                => resp' = Updated(req'.route, 1,
                                   IF AddressedValue(req') = req'.value THEN 0 ELSE 1)
           /\ (/\ SameBody(req', req) /\ ValidAndReachable(req)
               /\ resp.body.data.matched = 1 /\ ~OverwritesIdentifier(req'))
                => (resp' = Updated(req'.route, 1, 0) /\ StoreUnchanged)]_vars

C2_Witness ==
    /\ ValidAndReachable(req)
    /\ prev = Updated(req.route, 1, 1)
    /\ resp = Updated(req.route, 1, 0)

-----------------------------------------------------------------------------
(* C3 *)

\* C3: a valid update whose identifier matches no document of its collection,
\* served with the database reachable, is answered 200 with success=true and
\* data exactly {matched: 0, modified: 0}, and creates or changes no document.
C3_UnknownIdentifierIsNoError ==
    [][(IsRequestStep /\ ValidAndReachable(req') /\ Targets(req') = {})
        => (resp' = Updated(req'.route, 0, 0) /\ StoreUnchanged)]_vars

C3_Witness ==
    /\ ValidAndReachable(req)
    /\ Targets(req) = {}
    /\ shipping # <<>>
    /\ resp.code = 200 /\ resp.body.data = JCounts(0, 0)

-----------------------------------------------------------------------------
(* C4, under SpecLogs *)

Min(a, b) == IF a <= b THEN a ELSE b

\* the last Min(n, TailLen) lines of the file, in order
ExpectedTail ==
    LET n == Len(logFile)
        k == Min(n, TailLen)
    IN  [i \in 1..k |-> logFile[n - k + i]]

\* C4 as stated: GET /logs answers 404 "Log file not found" when the file is
\* absent; otherwise, for a file of any number n >= 0 of lines that is read
\* without error, 200 with data the sequence of its last min(n, 100) lines,
\* n = 0 included.
C4_TailForEveryLength ==
    [][(IsRequestStep /\ req'.route = "get_logs")
        => /\ ~logExists
                => resp' = Envelope(404, FALSE, "Log file not found", EmptyObject)
           /\ (logExists /\ req'.op1 = OK)
                => resp' = Envelope(200, TRUE, "Logs fetched", JArray(ExpectedTail))]_vars

\* C4 amended: GET /logs answers 404 "Log file not found" when the file is
\* absent; for a file of n >= 1 lines read without error, 200 with data the
\* sequence of its last min(n, 100) lines in order; for an empty file (n = 0),
\* 200 with data the empty object {} and not an empty sequence.
C4_TailOfNonEmptyFile ==
    [][(IsRequestStep /\ req'.route = "get_logs")
        => /\ ~logExists
                => resp' = Envelope(404, FALSE, "Log file not found", EmptyObject)
           /\ (logExists /\ req'.op1 = OK /\ logFile # <<>>)
                => resp' = Envelope(200, TRUE, "Logs fetched", JArray(ExpectedTail))
           /\ (logExists /\ req'.op1 = OK /\ logFile = <<>>)
                => resp' = Envelope(200, TRUE, "Logs fetched", EmptyObject)]_vars

C4_Witness ==
    /\ req.route = "get_logs" /\ resp.code = 200
    /\ Len(logFile) > TailLen
    /\ resp.body.data.kind = "array"
    /\ Len(resp.body.data.items) = TailLen
    /\ resp.body.data.items[TailLen] = logFile[Len(logFile)]

-----------------------------------------------------------------------------
(* C5, C6, C7: the health route and what a response shows *)

HealthKeys == {"flask", "mongodb", "unisys_collection", "ibm_collection", "overall_status"}
SubChecks == {"flask", "mongodb", "unisys_collection", "ibm_collection"}

\* C5: in a /health response overall_status is "unhealthy" if and only if some
\* reported sub-check is "unhealthy", and the status code is 200 exactly when
\* overall_status is "healthy" and 500 otherwise.
C5_OverallStatusAndCode ==
    req.route = "health"
    => /\ resp.body.overall_status \in {"healthy", "unhealthy"}
       /\ resp.body.overall_status = "unhealthy"
            <=> \E k \in SubChecks : resp.body[k].status = "unhealthy"
       /\ resp.code = (IF resp.body.overall_status = "healthy" THEN 200 ELSE 500)

C5_Witness ==
    /\ req.route = "health"
    /\ req.ping = OK /\ req.op1 = OK /\ req.op2 # OK
    /\ resp.code = 500

\* C6: whichever sub-checks fail, a /health response holds the four entries
\* and overall_status, reports flask healthy, and reports each of mongodb,
\* unisys_collection and ibm_collection by the outcome of its own check only.
C6_PartialFailureIsolation ==
    req.route = "health"
    => /\ DOMAIN resp.body = HealthKeys
       /\ resp.body.flask.status = "healthy"
       /\ resp.body.mongodb.status = "healthy" <=> req.ping = OK
       /\ resp.body.unisys_collection.status = "healthy" <=> req.op1 = OK
       /\ resp.body.ibm_collection.status = "healthy" <=> req.op2 = OK

C6_Witness ==
    /\ req.route = "health"
    /\ req.ping # OK /\ req.op1 = OK /\ req.op2 # OK
    /\ resp.body.unisys_collection.status = "healthy"
    /\ resp.body.ibm_collection.status = "unhealthy"

\* str(e) of every exception a handler may catch
AllExcTexts == ExcTexts \cup {NameErrorText, AttrErrorText, JsonErrorText}

\* the message strings of a response body
BodyTexts(response) ==
    IF "message" \in DOMAIN response.body
    THEN {response.body.message}
    ELSE {response.body[k].message : k \in DOMAIN response.body \cap SubChecks}

\* the exception texts the request's calls raised
Raised(r) == {r.ping, r.op1, r.op2} \cap AllExcTexts

\* what precedes str(e) in the handlers' logging.error calls
ErrorPrefixes ==
    {"Error in /get/unisys/payroll: ", "Error in /get/shipping: ",
     "Error in /update/unisys/payroll: ", "Error in /update/IBM/shipping: ",
     "Error in /logs: ", "MongoDB health check failed: ",
     "Unisys collection check failed: ", "IBM collection check failed: "}

\* the log records of the request carry the exception text t
IsLogged(t) ==
    \E i \in 1..Len(logged) : \E p \in ErrorPrefixes :
        logged[i] = [level |-> "ERROR", text |-> p \o t]

\* C7 as stated: on every route the text of an exception raised while handling
\* a request is written to the server-side log and appears in no response body.
C7_NoExceptionTextInBody ==
    req.route # "none"
    => /\ BodyTexts(resp) \cap AllExcTexts = {}
       /\ \A t \in Raised(req) : IsLogged(t)

-----------------------------------------------------------------------------
(* C8 *)

\* the collection a read route scans
Scanned(route) == IF route = "get_payroll" THEN payroll ELSE shipping

\* items are the documents of col in order, each without its _id
IsProjectionOf(items, col) ==
    /\ Len(items) = Len(col)
    /\ \A i \in 1..Len(col) :
        /\ DOMAIN items[i] = DOMAIN col[i] \ {"_id"}
        /\ \A k \in DOMAIN items[i] : items[i][k] = col[i][k]

\* C8 as stated: with the database reachable a read route answers 200 with
\* success=true, its fixed message and data the array of all documents of its
\* collection, each without _id, for every content of the collection, the
\* empty collection included.
C8_ReadReturnsArrayAlways ==
    (req.route \in ReadRoutes /\ req.ping = OK /\ req.op1 = OK)
    => /\ resp.code = 200 /\ resp.body.success = TRUE
       /\ resp.body.message = SuccessMessage(req.route)
       /\ resp.body.data.kind = "array"
       /\ IsProjectionOf(resp.body.data.items, Scanned(req.route))

\* C8 amended: with the database reachable a read route answers 200 with
\* success=true and its fixed message; for a non-empty collection data is the
\* array of all its documents in order, each without _id; for an empty
\* collection data is the empty object {} and not an empty array.
C8_ReadReturnsDocuments ==
    (req.route \in ReadRoutes /\ req.ping = OK /\ req.op1 = OK)
    => /\ resp.code = 200 /\ resp.body.success = TRUE
       /\ resp.body.message = SuccessMessage(req.route)
       /\ IF Scanned(req.route) = <<>>
          THEN resp.body.data = EmptyObject
          ELSE /\ resp.body.data.kind = "array"
               /\ IsProjectionOf(resp.body.data.items, Scanned(req.route))

C8_Witness ==
    /\ req.route = "get_payroll" /\ req.ping = OK /\ req.op1 = OK
    /\ resp.code = 200
    /\ resp.body.data.kind = "array"
    /\ Len(resp.body.data.items) = 2
    /\ payroll # PayrollSeed

-----------------------------------------------------------------------------
(* C9 *)

Ids(col) == [i \in 1..Len(col) |-> col[i]._id]
Changed(old, new) == {i \in 1..Len(old) : new[i] # old[i]}

\* new differs from old at most in the value of `field` of element e
PayrollDocFrame(old, new, e, field) ==
    /\ DOMAIN new = DOMAIN old
    /\ DOMAIN new.data = DOMAIN old.data
    /\ Len(new.data.payrollRecords) = Len(old.data.payrollRecords)
    /\ \A j \in 1..Len(old.data.payrollRecords) :
        /\ DOMAIN new.data.payrollRecords[j] = DOMAIN old.data.payrollRecords[j]
        /\ \A f \in DOMAIN old.data.payrollRecords[j] :
            (j # e \/ f # field)
                => new.data.payrollRecords[j][f] = old.data.payrollRecords[j][f]

\* new differs from old at most in shippingPerson's value of `field`
ShippingDocFrame(old, new, field) ==
    /\ DOMAIN new = DOMAIN old
    /\ DOMAIN new.shippingPerson = DOMAIN old.shippingPerson
    /\ \A f \in DOMAIN old.shippingPerson :
        f # field => new.shippingPerson[f] = old.shippingPerson[f]

\* C9: no request creates or deletes a document; an update request changes at
\* most one document, of its own collection, and in it only the value at the
\* addressed path (for payroll inside the first payrollRecords element of the
\* first matching document whose crewMemberId is the identifier, for shipping
\* under shippingPerson of the first matching document); everything else, and
\* the whole store on a GET, a 400 or a 500, stays as it was.
C9_FrameOfWrites ==
    [][IsRequestStep
        => /\ Ids(payroll') = Ids(payroll) /\ Ids(shipping') = Ids(shipping)
           /\ (req'.route # "update_payroll" \/ resp'.code # 200) => payroll' = payroll
           /\ (req'.route # "update_shipping" \/ resp'.code # 200) => shipping' = shipping
           /\ Changed(payroll, payroll') # {}
                => LET d == FirstIndex(PayrollMatches(payroll, req'.id))
                       e == FirstIndex(PayrollElements(payroll[d], req'.id))
                   IN  /\ Changed(payroll, payroll') = {d}
                       /\ PayrollDocFrame(payroll[d], payroll'[d], e, req'.field)
                       /\ payroll'[d].data.payrollRecords[e][req'.field] = req'.value
           /\ Changed(shipping, shipping') # {}
                => LET d == FirstIndex(ShippingMatches(shipping, req'.id))
                   IN  /\ Changed(shipping, shipping') = {d}
                       /\ ShippingDocFrame(shipping[d], shipping'[d], req'.field)
                       /\ shipping'[d].shippingPerson[req'.field] = req'.value]_vars

C9_Witness ==
    /\ req.route = "update_payroll" /\ req.id = "E1" /\ req.field = "salary"
    /\ resp = Updated("update_payroll", 1, 1)
    /\ payroll[1].data.payrollRecords[2].salary = "n1"
    /\ payroll[2] = PayrollSeed[2]

-----------------------------------------------------------------------------
(* C10 *)

\* C10: in each data route the ping is issued before any find or update_one of
\* the request; when the ping fails, or the handles are unset, the handler
\* issues no find or update_one and answers 500 with success=false, the
\* route's fixed error message and an empty data object, and the service goes
\* on serving requests.
C10_ProbeBeforeOperation ==
    req.route \in DataRoutes
    => /\ \A i \in Queries(calls) : \E j \in 1..(i - 1) : calls[j].op = "ping"
       /\ (req.ping # OK \/ ~handles)
            => /\ Queries(calls) = {}
               /\ resp = Failed(req.route)
               /\ ENABLED Next

C10_Witness ==
    /\ req.route = "update_payroll" /\ ValidBody(req)
    /\ ~handles
    /\ payroll # <<>>
    /\ resp.code = 500

====
